---- MODULE Spec2Model ----
(***************************************************************************)
(* Model of app.py: the chained pre-activity meal recommendation pipeline  *)
(* (one macro-ratio call, then a generate call and a filter call for each  *)
(* of the Best, OK and Avoid categories), its service adapter prompt_model *)
(* and the rendering of the four results.                                  *)
(*                                                                         *)
(* Texts are sequences of one-character strings.  A script run is split    *)
(* at the only blocking operation, the call of the generation service:     *)
(* one action runs from the arrival of one service response to the issue   *)
(* of the next request.                                                    *)
(***************************************************************************)
EXTENDS Integers, Sequences, FiniteSets, TLC

VARIABLES
    client,               \* module-level service client (app.py line 5)
    activity,             \* main: selectbox value, per run
    time_until,           \* main: slider value in steps of 0.25 h, per run
    macro_explanation,    \* main locals, per run (Unbound before assignment)
    best_candidates_20,
    best_list_10,
    ok_candidates_20,
    ok_list_10,
    avoid_candidates_20,
    avoid_list_10,
    pc,                   \* position of each run in main
    calls,                \* per run: requests passed to chat.completions.create, in order
    inflight,             \* per run: requests issued and not yet answered
    service_log,          \* per run: what the service did with each request, in order
    shown,                \* per run: st.subheader / st.write / st.markdown output, in order
    error,                \* per run: the exception that left main, if any
    text,                 \* input of the stand-alone strip check
    stripped,             \* its result
    reply,                \* StructuredParser: the final-stage reply given to parse
    parsed                \* StructuredParser: what parse handed back

pipeVars == <<client, activity, time_until, macro_explanation, best_candidates_20,
              best_list_10, ok_candidates_20, ok_list_10, avoid_candidates_20,
              avoid_list_10, pc, calls, inflight, service_log, shown, error>>
stripVars == <<text, stripped>>
parseVars == <<reply, parsed>>
vars == <<pipeVars, stripVars, parseVars>>

----------------------------------------------------------------------------
\* Bounds of the model.

\* longest reply text the service returns to a pipeline stage
MaxReplyLen == 1
\* longest text given to the stand-alone strip check
MaxLen == 5

\* script runs (sessions)
Runs == {"r1", "r2"}
\* the run that executes under Spec
Solo == {"r1"}

\* a local of main that has not been assigned yet
Unbound == <<"unbound">>

Whitespace == {" ", "\n"}
Letters    == {"a", "b"}
Chars      == Whitespace \cup Letters
\* characters of the replies the service gives to pipeline stages
ReplyChars == {" ", "a"}

\* all texts over alphabet A of length at most n
TextsUpTo(A, n) == UNION {[1..k -> A] : k \in 0..n}

ReplyTexts == TextsUpTo(ReplyChars, MaxReplyLen)

----------------------------------------------------------------------------
\* The input surface of main.

activities == <<"basketball", "weightlifting", "pilates", "running", "swimming", "yoga">>
\* slider: 0.0 .. 3.0 in steps of 0.25, default 1.0; values are counted in steps
SliderSteps   == 12
SliderDefault == 4

Digit(d) == CASE d = 0 -> "0" [] d = 1 -> "1" [] d = 2 -> "2" [] d = 3 -> "3"

\* f-string rendering of the float q * 0.25: "0.0", "0.25", "0.5", "0.75", "1.0", ...
FormatHours(q) ==
    <<Digit(q \div 4), ".">> \o
    (CASE q % 4 = 0 -> <<"0">>
       [] q % 4 = 1 -> <<"2", "5">>
       [] q % 4 = 2 -> <<"5">>
       [] q % 4 = 3 -> <<"7", "5">>)

----------------------------------------------------------------------------
\* str.strip() as used by prompt_model: drop leading, then trailing whitespace.

RECURSIVE LStrip(_)
LStrip(s) == IF s # <<>> /\ Head(s) \in Whitespace THEN LStrip(Tail(s)) ELSE s

RECURSIVE RStrip(_)
RStrip(s) == IF s # <<>> /\ s[Len(s)] \in Whitespace
             THEN RStrip(SubSeq(s, 1, Len(s) - 1)) ELSE s

\* a plausible slip: only leading whitespace removed
StripLeadingOnly(s) == LStrip(s)

Strip(s) == RStrip(LStrip(s))

----------------------------------------------------------------------------
\* The generation service and prompt_model.

FailureKinds == {"AuthenticationError", "APIConnectionError", "InternalServerError"}

\* what client.chat.completions.create can do with a request: return a response
\* whose message content is a text, return one whose content is None, or raise
ServiceOutcomes ==
    [kind : {"reply"}, content : ReplyTexts]
      \cup {[kind |-> "no_content", content |-> Unbound]}
      \cup [kind : FailureKinds, content : {Unbound}]

\* an error swallowed into an empty text
prompt_model_swallow(outcome) ==
    IF outcome.kind = "reply"
    THEN [raised |-> FALSE, exc |-> "none", value |-> Strip(outcome.content)]
    ELSE [raised |-> FALSE, exc |-> "none", value |-> <<>>]

\* an error caught and returned as the text of its message
prompt_model_error_text(outcome) ==
    IF outcome.kind = "reply"
    THEN [raised |-> FALSE, exc |-> "none", value |-> Strip(outcome.content)]
    ELSE [raised |-> FALSE, exc |-> "none", value |-> <<"E", "r", "r", "o", "r">>]

\* prompt_model, given the outcome of the create call of line 12: the stripped
\* content, or the exception that leaves the function
prompt_model(outcome) ==
    CASE outcome.kind = "reply" ->
           [raised |-> FALSE, exc |-> "none", value |-> Strip(outcome.content)]
      [] outcome.kind = "no_content" ->
           [raised |-> TRUE, exc |-> "AttributeError", value |-> Unbound]
      [] OTHER ->
           [raised |-> TRUE, exc |-> outcome.kind, value |-> Unbound]

----------------------------------------------------------------------------
\* Prompt builders: the request each stage function passes to prompt_model.
\* The user message is the template of the function with its slots filled.

step_one_get_macros(act, t) ==
    [fn |-> "step_one_get_macros",
     developer |-> "You are a concise, helpful nutrition coach.",
     user |-> [activity |-> act, time_until |-> FormatHours(t)]]

generate_best_candidates(macro_summary) ==
    [fn |-> "generate_best_candidates",
     developer |-> "Generate 20 bullet-list items.",
     user |-> [macro_summary |-> macro_summary]]

filter_best_candidates(macro_summary, candidate_text) ==
    [fn |-> "filter_best_candidates",
     developer |-> "Filter to 10 items that best match macros.",
     user |-> [candidate_text |-> candidate_text, macro_summary |-> macro_summary]]

generate_ok_candidates(macro_summary) ==
    [fn |-> "generate_ok_candidates",
     developer |-> "Generate 20 'OK' bullet-list items.",
     user |-> [macro_summary |-> macro_summary]]

filter_ok_candidates(macro_summary, candidate_text, best_list_text) ==
    [fn |-> "filter_ok_candidates",
     developer |-> "Filter to 10 items that are healthy but not as good as 'Best'.",
     user |-> [candidate_text |-> candidate_text, macro_summary |-> macro_summary,
               best_list_text |-> best_list_text]]

generate_avoid_candidates(macro_summary) ==
    [fn |-> "generate_avoid_candidates",
     developer |-> "Generate 20 'Avoid' bullet-list items.",
     user |-> [macro_summary |-> macro_summary]]

filter_avoid_candidates(macro_summary, candidate_text) ==
    [fn |-> "filter_avoid_candidates",
     developer |-> "Select 10 'Avoid' items that are most tempting yet poor.",
     user |-> [candidate_text |-> candidate_text, macro_summary |-> macro_summary]]

\* the stage functions in the order main calls them
StageOrder == <<"step_one_get_macros",
                "generate_best_candidates", "filter_best_candidates",
                "generate_ok_candidates", "filter_ok_candidates",
                "generate_avoid_candidates", "filter_avoid_candidates">>

Categories == {"Best", "OK", "Avoid"}

----------------------------------------------------------------------------
\* Rendering, lines 250-260 of main.

\* the OK list rendered under the Best heading and the Best list under OK
Render_swapped(macro, best, ok, avoid) ==
    <<[st |-> "subheader", body |-> <<"Recommended Macronutrient Ratio">>],
      [st |-> "write",     body |-> macro],
      [st |-> "subheader", body |-> <<"Best Foods (10)">>],
      [st |-> "markdown",  body |-> ok],
      [st |-> "subheader", body |-> <<"OK Foods (10)">>],
      [st |-> "markdown",  body |-> best],
      [st |-> "subheader", body |-> <<"Foods to Avoid (10)">>],
      [st |-> "markdown",  body |-> avoid]>>

Render(macro, best, ok, avoid) ==
    <<[st |-> "subheader", body |-> <<"Recommended Macronutrient Ratio">>],
      [st |-> "write",     body |-> macro],
      [st |-> "subheader", body |-> <<"Best Foods (10)">>],
      [st |-> "markdown",  body |-> best],
      [st |-> "subheader", body |-> <<"OK Foods (10)">>],
      [st |-> "markdown",  body |-> ok],
      [st |-> "subheader", body |-> <<"Foods to Avoid (10)">>],
      [st |-> "markdown",  body |-> avoid]>>

NoError == [exc |-> "none", at |-> "none"]

----------------------------------------------------------------------------
\* StructuredParser (the one-shot variants' final stage).  A structured reply
\* is written "{" key value* key value* ... "}": a key token opens a field and
\* the item tokens up to the next key are its value.  The expected shape has
\* the list field foods_to_eat (key "E") and the text field explanation
\* (key "X").

\* longest reply given to parse
MaxParseLen == 5

ParseTokens == {"{", "}", "E", "X", "a"}
KeyTokens   == {"E", "X"}
ShapeKeys   == {"E", "X"}

NotParsed == [outcome |-> "none", foods_to_eat |-> <<>>, explanation |-> <<>>]

\* the fixed, labelled text that replaces a text field when decoding failed
ParseErrorText == <<"Error: could not parse the model's reply.">>

FallbackRecommendation ==
    [outcome |-> "fallback", foods_to_eat |-> <<>>, explanation |-> ParseErrorText]

\* strict decoding: braces around the fields and nowhere else, a key first,
\* no key twice
Decodes(t) ==
    /\ Len(t) >= 2
    /\ t[1] = "{"
    /\ t[Len(t)] = "}"
    /\ \A n \in 2..(Len(t) - 1) : t[n] \notin {"{", "}"}
    /\ Len(t) > 2 => t[2] \in KeyTokens
    /\ \A m, n \in 2..(Len(t) - 1) : (t[m] \in KeyTokens /\ t[m] = t[n]) => m = n

\* the keys of a decoded reply
KeysOf(t) == {t[n] : n \in 2..(Len(t) - 1)} \cap KeyTokens

\* the value of field key of a decoded reply: the items after the key, up to
\* the next key or the closing brace
RECURSIVE ItemsFrom(_, _)
ItemsFrom(t, n) ==
    IF n > Len(t) \/ t[n] \in KeyTokens \cup {"}"} THEN <<>>
    ELSE <<t[n]>> \o ItemsFrom(t, n + 1)

FieldOf(t, key) ==
    LET at == CHOOSE n \in 2..(Len(t) - 1) : t[n] = key IN ItemsFrom(t, at + 1)

\* a decode failure raised to the caller
parse_raises(t) ==
    IF Decodes(t) /\ ShapeKeys \subseteq KeysOf(t)
    THEN [outcome |-> "result", foods_to_eat |-> FieldOf(t, "E"),
          explanation |-> FieldOf(t, "X")]
    ELSE [outcome |-> "raised", foods_to_eat |-> <<>>, explanation |-> <<>>]

\* parse: the expected fields of a reply that decodes into the shape, and the
\* FallbackRecommendation for any other reply
parse(t) ==
    IF Decodes(t) /\ ShapeKeys \subseteq KeysOf(t)
    THEN [outcome |-> "result", foods_to_eat |-> FieldOf(t, "E"),
          explanation |-> FieldOf(t, "X")]
    ELSE FallbackRecommendation

----------------------------------------------------------------------------
\* The calls main makes, each with the arguments main passes at that line.

\* OK filter given the unfiltered Best pool
call_filter_ok_raw(r, candidates) ==
    filter_ok_candidates(macro_explanation[r], candidates, best_candidates_20[r])

\* Avoid generation given the Best list in place of the macro text
call_generate_avoid_other(r) == generate_avoid_candidates(best_list_10[r])

\* OK generation reading the macro text another run left behind
call_generate_ok_shared(r) ==
    generate_ok_candidates(macro_explanation[CHOOSE o \in Runs : o # r])

\* OK generation also given the Best list, to steer it away from those items
call_generate_ok_dep(r) ==
    generate_ok_candidates(macro_explanation[r] \o best_list_10[r])

\* Avoid filter given the OK pool
call_filter_avoid_copy(r, candidates) ==
    filter_avoid_candidates(macro_explanation[r], ok_candidates_20[r])

call_step_one(r)                 == step_one_get_macros(activity[r], time_until[r])
call_generate_best(r, macro)     == generate_best_candidates(macro)
call_filter_best(r, candidates)  == filter_best_candidates(macro_explanation[r], candidates)
call_generate_ok(r)              == generate_ok_candidates(macro_explanation[r])
call_filter_ok(r, candidates)    ==
    filter_ok_candidates(macro_explanation[r], candidates, best_list_10[r])
call_generate_avoid(r)           == generate_avoid_candidates(macro_explanation[r])
call_filter_avoid(r, candidates) == filter_avoid_candidates(macro_explanation[r], candidates)

----------------------------------------------------------------------------
\* Steps shared by the stages of main.

locals == <<macro_explanation, best_candidates_20, best_list_10, ok_candidates_20,
            ok_list_10, avoid_candidates_20, avoid_list_10>>

\* the request of stage function fn that run r waits for
Awaited(r, fn) == {q \in inflight[r] : q.fn = fn}

\* the create call of request req returns or raises: req is no longer outstanding
Answer(r, req, outcome) ==
    service_log' = [service_log EXCEPT ![r] = Append(@, outcome.kind)]

\* the failed request is sent again
Propagate_retry(r, req, exc) ==
    /\ calls' = [calls EXCEPT ![r] = Append(@, req)]
    /\ UNCHANGED <<pc, error, inflight, shown>>

\* what is bound so far is rendered before the error leaves main
Propagate_partial(r, req, exc) ==
    /\ pc' = [pc EXCEPT ![r] = "Failed"]
    /\ error' = [error EXCEPT ![r] = [exc |-> exc, at |-> req.fn]]
    /\ inflight' = [inflight EXCEPT ![r] = @ \ {req}]
    /\ shown' = [shown EXCEPT ![r] =
                   IF macro_explanation[r] = Unbound THEN @
                   ELSE <<[st |-> "write", body |-> macro_explanation[r]]>>]
    /\ UNCHANGED calls

\* the exception is caught and main keeps waiting at the failed stage
Propagate_hang(r, req, exc) ==
    /\ inflight' = [inflight EXCEPT ![r] = @ \ {req}]
    /\ UNCHANGED <<pc, error, calls, shown>>

\* an exception raised in prompt_model for request req leaves the stage function
\* and main: nothing catches it, no further line of main runs
Propagate(r, req, exc) ==
    /\ pc' = [pc EXCEPT ![r] = "Failed"]
    /\ error' = [error EXCEPT ![r] = [exc |-> exc, at |-> req.fn]]
    /\ inflight' = [inflight EXCEPT ![r] = @ \ {req}]
    /\ UNCHANGED <<calls, shown>>

\* main goes on to its next call: the request next is passed to the service
Proceed(r, req, next, nextpc) ==
    /\ pc' = [pc EXCEPT ![r] = nextpc]
    /\ calls' = [calls EXCEPT ![r] = Append(@, next)]
    /\ inflight' = [inflight EXCEPT ![r] = (@ \ {req}) \cup {next}]
    /\ UNCHANGED <<error, shown>>

----------------------------------------------------------------------------
\* Initial state: the script has drawn its widgets with their defaults.

Init ==
    /\ client = [api_key |-> "OPENAI_API_KEY"]
    /\ activity = [r \in Runs |-> activities[1]]
    /\ time_until = [r \in Runs |-> SliderDefault]
    /\ macro_explanation = [r \in Runs |-> Unbound]
    /\ best_candidates_20 = [r \in Runs |-> Unbound]
    /\ best_list_10 = [r \in Runs |-> Unbound]
    /\ ok_candidates_20 = [r \in Runs |-> Unbound]
    /\ ok_list_10 = [r \in Runs |-> Unbound]
    /\ avoid_candidates_20 = [r \in Runs |-> Unbound]
    /\ avoid_list_10 = [r \in Runs |-> Unbound]
    /\ pc = [r \in Runs |-> "Idle"]
    /\ calls = [r \in Runs |-> <<>>]
    /\ inflight = [r \in Runs |-> {}]
    /\ service_log = [r \in Runs |-> <<>>]
    /\ shown = [r \in Runs |-> <<>>]
    /\ error = [r \in Runs |-> NoError]
    /\ text = <<>>
    /\ stripped = Unbound
    /\ reply = <<>>
    /\ parsed = NotParsed

----------------------------------------------------------------------------
\* Actions of main.

\* the user picks an activity: the script reruns with the button not pressed
SelectActivity(r, a) ==
    /\ pc[r] = "Idle"
    /\ activity[r] # a
    /\ activity' = [activity EXCEPT ![r] = a]
    /\ UNCHANGED <<client, time_until, locals, pc, calls, inflight, service_log,
                   shown, error, stripVars, parseVars>>

\* the user moves the slider
SlideTime(r, q) ==
    /\ pc[r] = "Idle"
    /\ time_until[r] # q
    /\ time_until' = [time_until EXCEPT ![r] = q]
    /\ UNCHANGED <<client, activity, locals, pc, calls, inflight, service_log,
                   shown, error, stripVars, parseVars>>

\* "Get Recommendations" is pressed: line 224 issues the macro-ratio request
ClickButton(r) ==
    /\ pc[r] = "Idle"
    /\ LET req == call_step_one(r)
       IN  /\ pc' = [pc EXCEPT ![r] = "MacroStage"]
           /\ calls' = [calls EXCEPT ![r] = Append(@, req)]
           /\ inflight' = [inflight EXCEPT ![r] = @ \cup {req}]
    /\ UNCHANGED <<client, activity, time_until, locals, service_log, shown,
                   error, stripVars, parseVars>>

\* line 224 completes; on success line 230 issues the Best generation request
MacroReturns(r, outcome) ==
    /\ pc[r] = "MacroStage"
    /\ \E req \in Awaited(r, "step_one_get_macros") :
         LET res == prompt_model(outcome)
         IN  /\ Answer(r, req, outcome)
             /\ IF res.raised
                THEN /\ Propagate(r, req, res.exc)
                     /\ UNCHANGED macro_explanation
                ELSE /\ macro_explanation' = [macro_explanation EXCEPT ![r] = res.value]
                     /\ Proceed(r, req, call_generate_best(r, res.value), "GenBest")
    /\ UNCHANGED <<client, activity, time_until, best_candidates_20, best_list_10,
                   ok_candidates_20, ok_list_10, avoid_candidates_20, avoid_list_10,
                   stripVars, parseVars>>

\* line 230 completes; on success line 232 issues the Best filter request
BestGenReturns(r, outcome) ==
    /\ pc[r] = "GenBest"
    /\ \E req \in Awaited(r, "generate_best_candidates") :
         LET res == prompt_model(outcome)
         IN  /\ Answer(r, req, outcome)
             /\ IF res.raised
                THEN /\ Propagate(r, req, res.exc)
                     /\ UNCHANGED best_candidates_20
                ELSE /\ best_candidates_20' = [best_candidates_20 EXCEPT ![r] = res.value]
                     /\ Proceed(r, req, call_filter_best(r, res.value), "FilterBest")
    /\ UNCHANGED <<client, activity, time_until, macro_explanation, best_list_10,
                   ok_candidates_20, ok_list_10, avoid_candidates_20, avoid_list_10,
                   stripVars, parseVars>>

\* Best and OK generation issued together once the Best list is known
BestFilterReturns_parallel(r, outcome) ==
    /\ pc[r] = "FilterBest"
    /\ \E req \in Awaited(r, "filter_best_candidates") :
         LET res == prompt_model(outcome)
         IN  /\ Answer(r, req, outcome)
             /\ IF res.raised
                THEN /\ Propagate(r, req, res.exc)
                     /\ UNCHANGED best_list_10
                ELSE /\ best_list_10' = [best_list_10 EXCEPT ![r] = res.value]
                     /\ pc' = [pc EXCEPT ![r] = "GenOK"]
                     /\ calls' = [calls EXCEPT ![r] =
                                    @ \o <<call_generate_ok(r), call_generate_avoid(r)>>]
                     /\ inflight' = [inflight EXCEPT ![r] =
                                    (@ \ {req}) \cup {call_generate_ok(r), call_generate_avoid(r)}]
                     /\ UNCHANGED <<error, shown>>
    /\ UNCHANGED <<client, activity, time_until, macro_explanation, best_candidates_20,
                   ok_candidates_20, ok_list_10, avoid_candidates_20, avoid_list_10,
                   stripVars, parseVars>>

\* line 232 completes; on success line 238 issues the OK generation request
BestFilterReturns(r, outcome) ==
    /\ pc[r] = "FilterBest"
    /\ \E req \in Awaited(r, "filter_best_candidates") :
         LET res == prompt_model(outcome)
         IN  /\ Answer(r, req, outcome)
             /\ IF res.raised
                THEN /\ Propagate(r, req, res.exc)
                     /\ UNCHANGED best_list_10
                ELSE /\ best_list_10' = [best_list_10 EXCEPT ![r] = res.value]
                     /\ Proceed(r, req, call_generate_ok(r), "GenOK")
    /\ UNCHANGED <<client, activity, time_until, macro_explanation, best_candidates_20,
                   ok_candidates_20, ok_list_10, avoid_candidates_20, avoid_list_10,
                   stripVars, parseVars>>

\* line 238 completes; on success line 240 issues the OK filter request
OkGenReturns(r, outcome) ==
    /\ pc[r] = "GenOK"
    /\ \E req \in Awaited(r, "generate_ok_candidates") :
         LET res == prompt_model(outcome)
         IN  /\ Answer(r, req, outcome)
             /\ IF res.raised
                THEN /\ Propagate(r, req, res.exc)
                     /\ UNCHANGED ok_candidates_20
                ELSE /\ ok_candidates_20' = [ok_candidates_20 EXCEPT ![r] = res.value]
                     /\ Proceed(r, req, call_filter_ok(r, res.value), "FilterOK")
    /\ UNCHANGED <<client, activity, time_until, macro_explanation, best_candidates_20,
                   best_list_10, ok_list_10, avoid_candidates_20, avoid_list_10,
                   stripVars, parseVars>>

\* the Best list is emptied once the OK list is known
OkFilterReturns_rewrites_best(r, outcome) ==
    /\ pc[r] = "FilterOK"
    /\ \E req \in Awaited(r, "filter_ok_candidates") :
         LET res == prompt_model(outcome)
         IN  /\ Answer(r, req, outcome)
             /\ IF res.raised
                THEN /\ Propagate(r, req, res.exc)
                     /\ UNCHANGED <<ok_list_10, best_list_10>>
                ELSE /\ ok_list_10' = [ok_list_10 EXCEPT ![r] = res.value]
                     /\ best_list_10' = [best_list_10 EXCEPT ![r] = <<>>]
                     /\ Proceed(r, req, call_generate_avoid(r), "GenAvoid")
    /\ UNCHANGED <<client, activity, time_until, macro_explanation, best_candidates_20,
                   ok_candidates_20, avoid_candidates_20, avoid_list_10,
                   stripVars, parseVars>>

\* line 240 completes; on success line 246 issues the Avoid generation request
OkFilterReturns(r, outcome) ==
    /\ pc[r] = "FilterOK"
    /\ \E req \in Awaited(r, "filter_ok_candidates") :
         LET res == prompt_model(outcome)
         IN  /\ Answer(r, req, outcome)
             /\ IF res.raised
                THEN /\ Propagate(r, req, res.exc)
                     /\ UNCHANGED ok_list_10
                ELSE /\ ok_list_10' = [ok_list_10 EXCEPT ![r] = res.value]
                     /\ Proceed(r, req, call_generate_avoid(r), "GenAvoid")
    /\ UNCHANGED <<client, activity, time_until, macro_explanation, best_candidates_20,
                   best_list_10, ok_candidates_20, avoid_candidates_20, avoid_list_10,
                   stripVars, parseVars>>

\* the Avoid pool is rendered as the Avoid list, without a filter call
AvoidGenReturns_nofilter(r, outcome) ==
    /\ pc[r] = "GenAvoid"
    /\ \E req \in Awaited(r, "generate_avoid_candidates") :
         LET res == prompt_model(outcome)
         IN  /\ Answer(r, req, outcome)
             /\ IF res.raised
                THEN /\ Propagate(r, req, res.exc)
                     /\ UNCHANGED <<avoid_candidates_20, avoid_list_10>>
                ELSE /\ avoid_candidates_20' = [avoid_candidates_20 EXCEPT ![r] = res.value]
                     /\ avoid_list_10' = [avoid_list_10 EXCEPT ![r] = res.value]
                     /\ pc' = [pc EXCEPT ![r] = "Done"]
                     /\ inflight' = [inflight EXCEPT ![r] = @ \ {req}]
                     /\ shown' = [shown EXCEPT ![r] =
                                    Render(macro_explanation[r], best_list_10[r],
                                           ok_list_10[r], res.value)]
                     /\ UNCHANGED <<calls, error>>
    /\ UNCHANGED <<client, activity, time_until, macro_explanation, best_candidates_20,
                   best_list_10, ok_candidates_20, ok_list_10, stripVars, parseVars>>

\* line 246 completes; on success line 248 issues the Avoid filter request
AvoidGenReturns(r, outcome) ==
    /\ pc[r] = "GenAvoid"
    /\ \E req \in Awaited(r, "generate_avoid_candidates") :
         LET res == prompt_model(outcome)
         IN  /\ Answer(r, req, outcome)
             /\ IF res.raised
                THEN /\ Propagate(r, req, res.exc)
                     /\ UNCHANGED avoid_candidates_20
                ELSE /\ avoid_candidates_20' = [avoid_candidates_20 EXCEPT ![r] = res.value]
                     /\ Proceed(r, req, call_filter_avoid(r, res.value), "FilterAvoid")
    /\ UNCHANGED <<client, activity, time_until, macro_explanation, best_candidates_20,
                   best_list_10, ok_candidates_20, ok_list_10, avoid_list_10,
                   stripVars, parseVars>>

\* line 248 completes; on success lines 250-260 render the four results
AvoidFilterReturns(r, outcome) ==
    /\ pc[r] = "FilterAvoid"
    /\ \E req \in Awaited(r, "filter_avoid_candidates") :
         LET res == prompt_model(outcome)
         IN  /\ Answer(r, req, outcome)
             /\ IF res.raised
                THEN /\ Propagate(r, req, res.exc)
                     /\ UNCHANGED avoid_list_10
                ELSE /\ avoid_list_10' = [avoid_list_10 EXCEPT ![r] = res.value]
                     /\ pc' = [pc EXCEPT ![r] = "Done"]
                     /\ inflight' = [inflight EXCEPT ![r] = @ \ {req}]
                     /\ shown' = [shown EXCEPT ![r] =
                                    Render(macro_explanation[r], best_list_10[r],
                                           ok_list_10[r], res.value)]
                     /\ UNCHANGED <<calls, error>>
    /\ UNCHANGED <<client, activity, time_until, macro_explanation, best_candidates_20,
                   best_list_10, ok_candidates_20, ok_list_10, avoid_candidates_20,
                   stripVars, parseVars>>

Step(r) ==
    \/ \E a \in {activities[i] : i \in 1..Len(activities)} : SelectActivity(r, a)
    \/ \E q \in 0..SliderSteps : SlideTime(r, q)
    \/ ClickButton(r)
    \/ \E o \in ServiceOutcomes : MacroReturns(r, o)
    \/ \E o \in ServiceOutcomes : BestGenReturns(r, o)
    \/ \E o \in ServiceOutcomes : BestFilterReturns(r, o)
    \/ \E o \in ServiceOutcomes : OkGenReturns(r, o)
    \/ \E o \in ServiceOutcomes : OkFilterReturns(r, o)
    \/ \E o \in ServiceOutcomes : AvoidGenReturns(r, o)
    \/ \E o \in ServiceOutcomes : AvoidFilterReturns(r, o)

\* one script run at a time
Next == \E r \in Solo : Step(r)

Spec == Init /\ [][Next]_vars

\* the create call a run waits for returns or raises
ServiceAnswers(r) ==
    \E o \in ServiceOutcomes :
        \/ MacroReturns(r, o)
        \/ BestGenReturns(r, o)
        \/ BestFilterReturns(r, o)
        \/ OkGenReturns(r, o)
        \/ OkFilterReturns(r, o)
        \/ AvoidGenReturns(r, o)
        \/ AvoidFilterReturns(r, o)

----------------------------------------------------------------------------
\* Two sessions running main at the same time, their steps interleaved.

ConcActivities == {activities[1], activities[4]}
ConcOutcomes ==
    [kind : {"reply"}, content : {<<" ">>, <<"a", " ">>}]
      \cup {[kind |-> "APIConnectionError", content |-> Unbound]}

ConcStep(r) ==
    \/ \E a \in ConcActivities : SelectActivity(r, a)
    \/ ClickButton(r)
    \/ \E o \in ConcOutcomes : MacroReturns(r, o)
    \/ \E o \in ConcOutcomes : BestGenReturns(r, o)
    \/ \E o \in ConcOutcomes : BestFilterReturns(r, o)
    \/ \E o \in ConcOutcomes : OkGenReturns(r, o)
    \/ \E o \in ConcOutcomes : OkFilterReturns(r, o)
    \/ \E o \in ConcOutcomes : AvoidGenReturns(r, o)
    \/ \E o \in ConcOutcomes : AvoidFilterReturns(r, o)

\* a run whose every issued call is answered in the end, by a reply or a
\* failure of any kind; the activity is one of ConcActivities
LiveStep(r) ==
    \/ \E a \in ConcActivities : SelectActivity(r, a)
    \/ ClickButton(r)
    \/ ServiceAnswers(r)

NextLive == \E r \in Solo : LiveStep(r)

SpecLive == Init /\ [][NextLive]_vars /\ \A r \in Solo : WF_vars(ServiceAnswers(r))

NextConc == \E r \in Runs : ConcStep(r)

SpecConc == Init /\ [][NextConc]_vars

----------------------------------------------------------------------------
\* prompt_model's treatment of a reply text, on its own.

InitStrip ==
    /\ client = [api_key |-> "OPENAI_API_KEY"]
    /\ activity = [r \in Runs |-> activities[1]]
    /\ time_until = [r \in Runs |-> SliderDefault]
    /\ macro_explanation = [r \in Runs |-> Unbound]
    /\ best_candidates_20 = [r \in Runs |-> Unbound]
    /\ best_list_10 = [r \in Runs |-> Unbound]
    /\ ok_candidates_20 = [r \in Runs |-> Unbound]
    /\ ok_list_10 = [r \in Runs |-> Unbound]
    /\ avoid_candidates_20 = [r \in Runs |-> Unbound]
    /\ avoid_list_10 = [r \in Runs |-> Unbound]
    /\ pc = [r \in Runs |-> "Idle"]
    /\ calls = [r \in Runs |-> <<>>]
    /\ inflight = [r \in Runs |-> {}]
    /\ service_log = [r \in Runs |-> <<>>]
    /\ shown = [r \in Runs |-> <<>>]
    /\ error = [r \in Runs |-> NoError]
    /\ text \in TextsUpTo(Chars, MaxLen)
    /\ stripped = Unbound
    /\ reply = <<>>
    /\ parsed = NotParsed

\* the service replies with text; prompt_model returns
PromptModelReturns ==
    /\ stripped = Unbound
    /\ stripped' = prompt_model([kind |-> "reply", content |-> text]).value
    /\ UNCHANGED <<pipeVars, text, parseVars>>

NextStrip == PromptModelReturns

SpecStrip == InitStrip /\ [][NextStrip]_vars

----------------------------------------------------------------------------
\* Properties of a chained run.

\* the local of main that receives the result of the k-th stage
StageResult(r, k) ==
    CASE k = 1 -> macro_explanation[r]
      [] k = 2 -> best_candidates_20[r]
      [] k = 3 -> best_list_10[r]
      [] k = 4 -> ok_candidates_20[r]
      [] k = 5 -> ok_list_10[r]
      [] k = 6 -> avoid_candidates_20[r]
      [] k = 7 -> avoid_list_10[r]

GenerateFns == {"generate_best_candidates", "generate_ok_candidates",
                "generate_avoid_candidates"}

\* C1: when the k-th generation call of a run fails with a service error, for any
\* k in 1..7, the run has issued exactly k generation calls: no later stage is
\* invoked, and the failed call is the last one the service saw.
C1_FailFast ==
    \A r \in Runs : \A k \in 1..Len(service_log[r]) :
        service_log[r][k] \in FailureKinds =>
            /\ k \in 1..7
            /\ Len(calls[r]) = k
            /\ Len(service_log[r]) = k

C1_Witness ==
    /\ pc["r1"] = "Failed"
    /\ Len(service_log["r1"]) = 4
    /\ service_log["r1"][4] \in FailureKinds
    /\ Len(calls["r1"]) = 4

\* C2: no partial aggregate: anything is handed to Presentation only in a run
\* whose seven stages all returned a reply, and then it is the whole rendering;
\* a run with a stage that did not return a reply ends Failed with the error
\* recorded and nothing shown.
C2_NoPartialAggregate ==
    \A r \in Runs :
        /\ shown[r] # <<>> =>
              /\ pc[r] = "Done"
              /\ error[r] = NoError
              /\ Len(service_log[r]) = 7
              /\ \A k \in 1..7 : service_log[r][k] = "reply" /\ StageResult(r, k) # Unbound
              /\ Len(shown[r]) = 8
        /\ (\E k \in 1..Len(service_log[r]) : service_log[r][k] # "reply") =>
              /\ pc[r] = "Failed"
              /\ error[r] # NoError
              /\ shown[r] = <<>>

C2_Witness ==
    /\ pc["r1"] = "Failed"
    /\ error["r1"].at = "generate_avoid_candidates"
    /\ macro_explanation["r1"] # Unbound
    /\ best_list_10["r1"] # Unbound
    /\ ok_list_10["r1"] # Unbound
    /\ shown["r1"] = <<>>

\* C3: a run in which no stage fails issues exactly 1 + 2 * (number of
\* categories) = 7 generation calls, whatever the activity and the time.
C3_SevenCalls ==
    \A r \in Runs :
        pc[r] = "Done" =>
            /\ Len(calls[r]) = 1 + 2 * Cardinality(Categories)
            /\ Len(calls[r]) = 7
            /\ Len(service_log[r]) = 7

C3_Witness ==
    /\ pc["r1"] = "Done"
    /\ activity["r1"] = "yoga"
    /\ time_until["r1"] = 0
    /\ Len(calls["r1"]) = 7

\* C4: the macro text embedded in the Best, OK and Avoid generation prompts is
\* exactly the text the macro-ratio stage returned.
C4_MacroUnmodified ==
    \A r \in Runs : \A k \in 1..Len(calls[r]) :
        calls[r][k].fn \in GenerateFns =>
            /\ macro_explanation[r] # Unbound
            /\ calls[r][k].user.macro_summary = macro_explanation[r]

C4_Witness ==
    /\ {calls["r1"][k].fn : k \in 1..Len(calls["r1"])} \cap GenerateFns = GenerateFns
    /\ macro_explanation["r1"] = <<"a">>
    /\ best_list_10["r1"] = <<>>
    /\ ok_list_10["r1"] = <<>>

\* C5: the OK filter prompt carries the filtered Best list (the result of the
\* Best filter stage), not the unfiltered Best pool.
C5_FilteredBestIntoOk ==
    \A r \in Runs : \A k \in 1..Len(calls[r]) :
        calls[r][k].fn = "filter_ok_candidates" =>
            /\ best_list_10[r] # Unbound
            /\ calls[r][k].user.best_list_text = best_list_10[r]
            /\ best_candidates_20[r] # best_list_10[r] =>
                  calls[r][k].user.best_list_text # best_candidates_20[r]

C5_Witness ==
    /\ Len(calls["r1"]) >= 5
    /\ calls["r1"][5].fn = "filter_ok_candidates"
    /\ best_candidates_20["r1"] = <<"a">>
    /\ best_list_10["r1"] = <<>>

\* C6: the stages run strictly one after another in the order macro, Best
\* generate, Best filter, OK generate, OK filter, Avoid generate, Avoid filter:
\* at most one call is outstanding, and a call is issued only when every earlier
\* call has returned a reply (so no category call before the macro text, and no
\* filter call before its category's candidates).
C6_StrictlySequential ==
    \A r \in Runs :
        /\ Cardinality(inflight[r]) <= 1
        /\ Len(calls[r]) <= Len(StageOrder)
        /\ \A k \in 1..Len(calls[r]) : calls[r][k].fn = StageOrder[k]
        /\ Len(service_log[r]) \in {Len(calls[r]) - 1, Len(calls[r])}
        /\ (inflight[r] # {}) <=> (Len(service_log[r]) = Len(calls[r]) - 1)
        /\ \A k \in 2..Len(calls[r]) :
              /\ service_log[r][k - 1] = "reply"
              /\ StageResult(r, k - 1) # Unbound

C6_Witness ==
    /\ pc["r1"] = "FilterOK"
    /\ Cardinality(inflight["r1"]) = 1
    /\ Len(calls["r1"]) = 5
    /\ Len(service_log["r1"]) = 4

\* C7: no retry: within a run no stage function is called twice, and after a
\* failed call nothing is outstanding and nothing was issued again.
C7_NoRetry ==
    \A r \in Runs :
        /\ \A i, j \in 1..Len(calls[r]) : calls[r][i].fn = calls[r][j].fn => i = j
        /\ \A k \in 1..Len(service_log[r]) :
              service_log[r][k] # "reply" =>
                  /\ inflight[r] = {}
                  /\ Len(calls[r]) = Len(service_log[r])
                  /\ pc[r] = "Failed"

C7_Witness ==
    /\ pc["r1"] = "Failed"
    /\ error["r1"].at = "filter_best_candidates"
    /\ Len(calls["r1"]) = 3
    /\ inflight["r1"] = {}

\* C8: a failure of the k-th generation call leaves main as an exception of
\* that very kind, raised by that stage; the stage's result is never bound to
\* a text.
C8_FailurePropagates ==
    \A r \in Runs : \A k \in 1..Len(service_log[r]) :
        service_log[r][k] \in FailureKinds =>
            /\ pc[r] = "Failed"
            /\ error[r].exc = service_log[r][k]
            /\ k <= Len(StageOrder)
            /\ error[r].at = StageOrder[k]
            /\ StageResult(r, k) = Unbound

C8_Witness ==
    /\ pc["r1"] = "Failed"
    /\ error["r1"] = [exc |-> "APIConnectionError", at |-> "filter_avoid_candidates"]
    /\ avoid_list_10["r1"] = Unbound

\* C9: on a successful run the macro text and the Best, OK and Avoid lists
\* shown are exactly the results of the macro stage and of the three filter
\* stages, each under its own heading, whatever their length.
C9_ShownAsReturned ==
    \A r \in Runs :
        pc[r] = "Done" =>
            /\ Len(shown[r]) = 8
            /\ shown[r][1].body = <<"Recommended Macronutrient Ratio">>
            /\ shown[r][2].body = macro_explanation[r]
            /\ shown[r][3].body = <<"Best Foods (10)">>
            /\ shown[r][4].body = best_list_10[r]
            /\ shown[r][5].body = <<"OK Foods (10)">>
            /\ shown[r][6].body = ok_list_10[r]
            /\ shown[r][7].body = <<"Foods to Avoid (10)">>
            /\ shown[r][8].body = avoid_list_10[r]

C9_Witness ==
    /\ pc["r1"] = "Done"
    /\ best_list_10["r1"] = <<>>
    /\ ok_list_10["r1"] = <<"a">>
    /\ avoid_list_10["r1"] = <<>>
    /\ shown["r1"][6].body = <<"a">>

\* C10: prompt_model returns the reply text with its leading and trailing
\* whitespace removed and nothing else changed: the result is the reply
\* without a whitespace-only prefix and a whitespace-only suffix, it neither
\* starts nor ends with whitespace, and stripping it again changes nothing.
C10_StripOnly ==
    stripped # Unbound =>
        /\ \E i, j \in 0..Len(text) :
              /\ i + j <= Len(text)
              /\ stripped = SubSeq(text, i + 1, Len(text) - j)
              /\ \A n \in 1..i : text[n] \in Whitespace
              /\ \A n \in (Len(text) - j + 1)..Len(text) : text[n] \in Whitespace
        /\ stripped # <<>> =>
              /\ stripped[1] \notin Whitespace
              /\ stripped[Len(stripped)] \notin Whitespace
        /\ Strip(stripped) = stripped

C10_Witness ==
    /\ text = <<" ", "a", " ", "b", "\n">>
    /\ stripped = <<"a", " ", "b">>

----------------------------------------------------------------------------
\* StructuredParser on its own: every reply up to MaxParseLen tokens is parsed.

InitParse ==
    /\ client = [api_key |-> "OPENAI_API_KEY"]
    /\ activity = [r \in Runs |-> activities[1]]
    /\ time_until = [r \in Runs |-> SliderDefault]
    /\ macro_explanation = [r \in Runs |-> Unbound]
    /\ best_candidates_20 = [r \in Runs |-> Unbound]
    /\ best_list_10 = [r \in Runs |-> Unbound]
    /\ ok_candidates_20 = [r \in Runs |-> Unbound]
    /\ ok_list_10 = [r \in Runs |-> Unbound]
    /\ avoid_candidates_20 = [r \in Runs |-> Unbound]
    /\ avoid_list_10 = [r \in Runs |-> Unbound]
    /\ pc = [r \in Runs |-> "Idle"]
    /\ calls = [r \in Runs |-> <<>>]
    /\ inflight = [r \in Runs |-> {}]
    /\ service_log = [r \in Runs |-> <<>>]
    /\ shown = [r \in Runs |-> <<>>]
    /\ error = [r \in Runs |-> NoError]
    /\ text = <<>>
    /\ stripped = Unbound
    /\ reply \in TextsUpTo(ParseTokens, MaxParseLen)
    /\ parsed = NotParsed

ParseReturns ==
    /\ parsed = NotParsed
    /\ parsed' = parse(reply)
    /\ UNCHANGED <<pipeVars, stripVars, reply>>

NextParse == ParseReturns

SpecParse == InitParse /\ [][NextParse]_vars

\* a reply is structured text of the expected shape when it is a brace pair
\* around fields that include every key of the shape, each key once
WellShaped(t) ==
    /\ Len(t) >= 2
    /\ Head(t) = "{"
    /\ t[Len(t)] = "}"
    /\ LET body == SubSeq(t, 2, Len(t) - 1)
       IN  /\ \A n \in 1..Len(body) : body[n] \in ParseTokens \ {"{", "}"}
           /\ body # <<>> => body[1] \in KeyTokens
           /\ \A key \in KeyTokens :
                 Cardinality({n \in 1..Len(body) : body[n] = key}) =
                 (IF key \in ShapeKeys THEN 1 ELSE 0)

\* C11: a reply that does not decode into the expected shape is never raised
\* as an exception: parse hands back a FallbackRecommendation whose list field
\* is empty and whose text field is the fixed error-labelled message; parse
\* hands back a result object for every reply.
C11_FallbackOnShapeError ==
    parsed # NotParsed =>
        /\ parsed.outcome \in {"result", "fallback"}
        /\ ~WellShaped(reply) =>
              /\ parsed.outcome = "fallback"
              /\ parsed.foods_to_eat = <<>>
              /\ parsed.explanation = ParseErrorText
              /\ parsed.explanation # <<>>
        /\ WellShaped(reply) => parsed.outcome = "result"

C11_Witness ==
    /\ reply = <<"{", "E", "a", "a">>
    /\ parsed = FallbackRecommendation

----------------------------------------------------------------------------
\* Properties of interleaved runs, of termination and of the data flow.

\* the request of the k-th stage of run r, built from what run r itself holds
OwnRequest(r, k) ==
    CASE k = 1 -> step_one_get_macros(activity[r], time_until[r])
      [] k = 2 -> generate_best_candidates(macro_explanation[r])
      [] k = 3 -> filter_best_candidates(macro_explanation[r], best_candidates_20[r])
      [] k = 4 -> generate_ok_candidates(macro_explanation[r])
      [] k = 5 -> filter_ok_candidates(macro_explanation[r], ok_candidates_20[r],
                                       best_list_10[r])
      [] k = 6 -> generate_avoid_candidates(macro_explanation[r])
      [] k = 7 -> filter_avoid_candidates(macro_explanation[r], avoid_candidates_20[r])

\* C12: with two runs interleaved, every request of a run is built from that
\* run's own activity and time and its own earlier stage results, the requests
\* it waits for are its own, and the shared client is as it was at start-up.
C12_NoSharedMutableState ==
    /\ client = [api_key |-> "OPENAI_API_KEY"]
    /\ \A r \in Runs :
          /\ Len(calls[r]) <= 7
          /\ \A k \in 1..Len(calls[r]) : calls[r][k] = OwnRequest(r, k)
          /\ inflight[r] \subseteq {calls[r][k] : k \in 1..Len(calls[r])}

C12_Witness ==
    /\ pc["r1"] = "FilterOK"
    /\ pc["r2"] = "GenOK"
    /\ activity["r1"] # activity["r2"]
    /\ macro_explanation["r1"] = <<"a">>
    /\ macro_explanation["r2"] = <<>>
    /\ best_list_10["r1"] # best_list_10["r2"]

\* C13: every started run terminates: once the button is pressed the run
\* reaches Done or Failed, given that each issued call is answered.
C13_Terminates ==
    \A r \in Runs : (pc[r] # "Idle") ~> (pc[r] \in {"Done", "Failed"})

C13_Witness ==
    /\ pc["r1"] = "Done"
    /\ Len(service_log["r1"]) = 7
    /\ inflight["r1"] = {}

FilterFns == {"filter_best_candidates", "filter_ok_candidates",
              "filter_avoid_candidates"}

\* the pool main holds for the category a filter function belongs to
OwnPool(r, fn) ==
    CASE fn = "filter_best_candidates" -> best_candidates_20[r]
      [] fn = "filter_ok_candidates" -> ok_candidates_20[r]
      [] fn = "filter_avoid_candidates" -> avoid_candidates_20[r]

\* C14: every filter request carries the candidate pool of its own category
\* and the macro text as returned; the Best and Avoid filter requests carry
\* nothing else, the OK filter request only the Best list besides.
C14_FilterGetsOwnPool ==
    \A r \in Runs : \A k \in 1..Len(calls[r]) :
        LET q == calls[r][k] IN
        q.fn \in FilterFns =>
            /\ OwnPool(r, q.fn) # Unbound
            /\ q.user.candidate_text = OwnPool(r, q.fn)
            /\ q.user.macro_summary = macro_explanation[r]
            /\ DOMAIN q.user =
                 IF q.fn = "filter_ok_candidates"
                 THEN {"candidate_text", "macro_summary", "best_list_text"}
                 ELSE {"candidate_text", "macro_summary"}

C14_Witness ==
    /\ Len(calls["r1"]) = 7
    /\ best_candidates_20["r1"] = <<"a">>
    /\ ok_candidates_20["r1"] = <<>>
    /\ avoid_candidates_20["r1"] = <<"a">>
    /\ macro_explanation["r1"] = <<>>

\* the generation request of function fn for macro text m
GenerateRequest(fn, m) ==
    CASE fn = "generate_best_candidates" -> generate_best_candidates(m)
      [] fn = "generate_ok_candidates" -> generate_ok_candidates(m)
      [] fn = "generate_avoid_candidates" -> generate_avoid_candidates(m)

\* C15: a generation request is determined by the macro text alone: it is the
\* request built from the macro text at the time that text was returned, it
\* has no slot for anything else, and two runs holding the same macro text
\* issue the same request whatever their activity, time, pools and lists.  So
\* the three requests do not depend on the order in which they are issued.
C15_GenerationIndependent ==
    /\ \A r \in Runs : \A k \in 1..Len(calls[r]) :
          calls[r][k].fn \in GenerateFns =>
              /\ calls[r][k] = GenerateRequest(calls[r][k].fn, macro_explanation[r])
              /\ DOMAIN calls[r][k].user = {"macro_summary"}
    /\ \A r, s \in Runs : \A k \in 1..Len(calls[r]) :
          (/\ calls[r][k].fn \in GenerateFns
           /\ k <= Len(calls[s])
           /\ macro_explanation[r] = macro_explanation[s]) => calls[r][k] = calls[s][k]

C15_Witness ==
    /\ Len(calls["r1"]) >= 6
    /\ Len(calls["r2"]) >= 6
    /\ macro_explanation["r1"] = macro_explanation["r2"]
    /\ activity["r1"] # activity["r2"]
    /\ best_list_10["r1"] = <<"a">>
    /\ best_list_10["r2"] = <<>>
    /\ ok_list_10["r1"] # ok_list_10["r2"]

\* C16: during a run the activity and the time keep the values they had when
\* the button was pressed, and only the macro-ratio request reads them; the
\* macro text, each pool and each list is bound when its stage returns a reply
\* and never changes afterwards.
C16_WriteOnce ==
    /\ [][\A r \in Runs :
            /\ pc[r] # "Idle" =>
                  /\ activity'[r] = activity[r]
                  /\ time_until'[r] = time_until[r]
            /\ \A k \in 1..7 :
                  StageResult(r, k) # Unbound => StageResult(r, k)' = StageResult(r, k)]_vars
    /\ [](\A r \in Runs :
            /\ \A k \in 1..Len(calls[r]) :
                  IF k = 1
                  THEN calls[r][k].user = [activity |-> activity[r],
                                           time_until |-> FormatHours(time_until[r])]
                  ELSE DOMAIN calls[r][k].user \cap {"activity", "time_until"} = {}
            /\ \A k \in 1..7 :
                  StageResult(r, k) # Unbound <=>
                      (k <= Len(service_log[r]) /\ service_log[r][k] = "reply"))

C16_Witness ==
    /\ pc["r1"] = "Done"
    /\ activity["r1"] = "swimming"
    /\ time_until["r1"] = 11
    /\ calls["r1"][1].user.time_until = <<"2", ".", "7", "5">>
    /\ best_list_10["r1"] = <<"a">>
    /\ ok_list_10["r1"] = <<>>

====
